---- MODULE Spec2Model ----
(***************************************************************************)
(* Model of src/hw5.py: class QuestionnaireAnalysis.                       *)
(*                                                                         *)
(* The object holds one DataFrame (self.data).  A DataFrame is modelled as *)
(* a record: its index labels, its rows (age, gender, email, q1..q5) and   *)
(* the optional "score" column.  Numbers are exact rationals; a missing    *)
(* number (NaN) is a tagged value.  Strings that are inspected character   *)
(* by character (emails) are sequences of code points.  A Python exception *)
(* is the "raised" field of the value an operation returns.                *)
(***************************************************************************)
EXTENDS Integers, Sequences, FiniteSets

VARIABLES file, input, loaded, data, ret

vars == <<file, input, loaded, data, ret>>

(***************************************************************************)
(* Bounds of the model.                                                    *)
(***************************************************************************)
MaxRows == 2
MaxEmailLen == 5
MaxNans == 6

(***************************************************************************)
(* Constants of the program.                                               *)
(***************************************************************************)
At == 64
Dot == 46
AsciiLimit == 128
NumQuestions == 5
AgeThreshold == 40
UInt8Modulus == 256

(***************************************************************************)
(* Numbers: float cells of the frame, as exact rationals or NaN.           *)
(***************************************************************************)
NaN == [nan |-> TRUE, num |-> 0, den |-> 1]

Num(n) == [nan |-> FALSE, num |-> n, den |-> 1]

RECURSIVE GCD(_, _)
GCD(a, b) == IF b = 0 THEN a ELSE GCD(b, a % b)

Abs(n) == IF n < 0 THEN -n ELSE n

Norm(n, d) ==
  LET g == GCD(Abs(n), d)
  IN  [nan |-> FALSE, num |-> n \div g, den |-> d \div g]

Add(a, b) == Norm(a.num * b.den + b.num * a.den, a.den * b.den)

DivInt(a, k) == Norm(a.num, a.den * k)

RECURSIVE SumSeq(_)
SumSeq(s) == IF s = <<>> THEN Num(0) ELSE Add(Head(s), SumSeq(Tail(s)))

IsNa(v) == v.nan

NotNa(v) == ~v.nan

\* DataFrame.mean / Series.mean with the default skipna=True
NanMean(s) ==
  LET present == SelectSeq(s, NotNa)
  IN  IF present = <<>> THEN NaN ELSE DivInt(SumSeq(present), Len(present))

\* isna().sum(axis=1) of one row
NanCount(s) == Len(SelectSeq(s, IsNa))

\* float -> uint8: numpy truncates toward zero, the width is 8 bits
Trunc(v) ==
  IF v.num >= 0 THEN v.num \div v.den ELSE -((-v.num) \div v.den)

ToUInt8(v) == Trunc(v) % UInt8Modulus

(***************************************************************************)
(* Cells of the other columns.                                             *)
(***************************************************************************)
Str(chars) == [kind |-> "str", chars |-> chars]

None == [kind |-> "NoneType", chars |-> <<>>]

FloatNaN == [kind |-> "float", chars |-> <<>>]

Gender(g) == [isnull |-> FALSE, v |-> g]

NoGender == [isnull |-> TRUE, v |-> ""]

ScoreOf(n) == [na |-> FALSE, v |-> n]

ScoreNA == [na |-> TRUE, v |-> 0]

(***************************************************************************)
(* Frames.                                                                 *)
(***************************************************************************)
EmptyFrame == [index |-> <<>>, rows |-> <<>>, hasScore |-> FALSE, score |-> <<>>]

\* pd.read_json of a list of records: a RangeIndex and no score column
FrameOf(rows) ==
  [index |-> [i \in 1..Len(rows) |-> i - 1],
   rows |-> rows, hasScore |-> FALSE, score |-> <<>>]

\* self.data.loc[:, "q1":"q5"], row by row
Grades(frame) == [i \in 1..Len(frame.rows) |-> frame.rows[i].q]

SeqsUpTo(S, n) == UNION {[1..k -> S] : k \in 0..n}

(***************************************************************************)
(* What a call returns: the operation, its arguments, the exception it     *)
(* raised ("none" when it returned), and the returned value.               *)
(***************************************************************************)
NoRet ==
  [op |-> "none", email |-> None, maxnans |-> 0, raised |-> "none",
   value |-> FALSE, frame |-> EmptyFrame, indices |-> <<>>, groups |-> {}]

(***************************************************************************)
(* Python str operations on a sequence of code points.                     *)
(***************************************************************************)
Contains(s, c) == \E i \in 1..Len(s) : s[i] = c

StartsWith(s, c) == Len(s) >= 1 /\ s[1] = c

EndsWith(s, c) == Len(s) >= 1 /\ s[Len(s)] = c

IsAscii(s) == \A i \in 1..Len(s) : s[i] < AsciiLimit

Count(s, c) == Cardinality({i \in 1..Len(s) : s[i] = c})

\* str.find: the 0-based position of the first c, -1 when there is none
Find(s, c) ==
  IF Contains(s, c)
  THEN (CHOOSE i \in 1..Len(s) : s[i] = c /\ \A j \in 1..(i - 1) : s[j] # c) - 1
  ELSE -1

\* s[i] of Python: i in -len..len-1, anything else is an IndexError
InRange(s, i) == -Len(s) <= i /\ i < Len(s)

Item(s, i) == IF i >= 0 THEN s[i + 1] ELSE s[Len(s) + i + 1]

Returns(b) == [raised |-> "none", value |-> b]

Raises(e) == [raised |-> e, value |-> FALSE]

validate_email_no_end_check(email) ==
  IF email.kind # "str" THEN Raises("TypeError")
  ELSE LET s == email.chars IN
    IF ~Contains(s, At) \/ ~Contains(s, Dot) THEN Returns(FALSE)
    ELSE IF StartsWith(s, At) THEN Returns(FALSE)
    ELSE IF StartsWith(s, Dot) \/ EndsWith(s, Dot) THEN Returns(FALSE)
    ELSE IF ~IsAscii(s) THEN Returns(FALSE)
    ELSE IF Count(s, At) # 1 THEN Returns(FALSE)
    ELSE IF ~InRange(s, Find(s, At) + 1) THEN Raises("IndexError")
    ELSE IF Item(s, Find(s, At) + 1) = Dot THEN Returns(FALSE)
    ELSE Returns(TRUE)

\* QuestionnaireAnalysis._validate_email
validate_email(email) ==
  IF email.kind # "str" THEN Raises("TypeError")
  ELSE LET s == email.chars IN
    IF ~Contains(s, At) \/ ~Contains(s, Dot) THEN Returns(FALSE)
    ELSE IF StartsWith(s, At) \/ EndsWith(s, At) THEN Returns(FALSE)
    ELSE IF StartsWith(s, Dot) \/ EndsWith(s, Dot) THEN Returns(FALSE)
    ELSE IF ~IsAscii(s) THEN Returns(FALSE)
    ELSE IF Count(s, At) # 1 THEN Returns(FALSE)
    ELSE IF ~InRange(s, Find(s, At) + 1) THEN Raises("IndexError")
    ELSE IF Item(s, Find(s, At) + 1) = Dot THEN Returns(FALSE)
    ELSE Returns(TRUE)

(***************************************************************************)
(* DataFrame operations.                                                   *)
(***************************************************************************)
\* the positions of a boolean mask that are set, ascending
Kept(mask) ==
  SelectSeq([i \in 1..Len(mask) |-> i], LAMBDA i : mask[i])

\* frame.loc[mask]: the rows the mask keeps, with their labels
Loc(frame, mask) ==
  LET keep == Kept(mask)
  IN  [index |-> [k \in 1..Len(keep) |-> frame.index[keep[k]]],
       rows |-> [k \in 1..Len(keep) |-> frame.rows[keep[k]]],
       hasScore |-> frame.hasScore,
       score |-> IF frame.hasScore
                 THEN [k \in 1..Len(keep) |-> frame.score[keep[k]]]
                 ELSE <<>>]

\* frame.reset_index(drop=True)
ResetIndex(frame) ==
  [frame EXCEPT !.index = [i \in 1..Len(frame.rows) |-> i - 1]]

\* Series.apply(self._validate_email) over the email column
EmailChecks(frame) ==
  [i \in 1..Len(frame.rows) |-> validate_email(frame.rows[i].email)]

\* the first exception apply meets, "none" when every call returns
FirstRaised(checks) ==
  IF \A i \in 1..Len(checks) : checks[i].raised = "none"
  THEN "none"
  ELSE checks[CHOOSE i \in 1..Len(checks) :
                /\ checks[i].raised # "none"
                /\ \A j \in 1..(i - 1) : checks[j].raised = "none"].raised

\* the body of remove_rows_without_mail once apply has returned
ValidRows(frame) ==
  LET checks == EmailChecks(frame)
  IN  ResetIndex(Loc(frame, [i \in 1..Len(checks) |-> checks[i].value]))

\* relevant_columns.isna().any(axis=1)
HasNulls(frame) ==
  [i \in 1..Len(frame.rows) |->
     \E j \in 1..NumQuestions : IsNa(frame.rows[i].q[j])]

AnyNullColumn(frame) ==
  [i \in 1..Len(frame.rows) |->
     \/ \E j \in 1..NumQuestions : IsNa(frame.rows[i].q[j])
     \/ IsNa(frame.rows[i].age)
     \/ frame.rows[i].gender.isnull
     \/ frame.rows[i].email.kind # "str"]

find_rows_all_columns(frame) ==
  LET keep == Kept(AnyNullColumn(frame))
  IN  [k \in 1..Len(keep) |-> frame.index[keep[k]]]

\* QuestionnaireAnalysis._find_rows_with_nulls
find_rows_with_nulls(frame) ==
  LET keep == Kept(HasNulls(frame))
  IN  [k \in 1..Len(keep) |-> frame.index[keep[k]]]

row_mean_over_all(qs) ==
  IF SelectSeq(qs, NotNa) = <<>>
  THEN NaN
  ELSE DivInt(SumSeq(SelectSeq(qs, NotNa)), NumQuestions)

\* grades_df.mean(axis=1), one row
row_mean(qs) == NanMean(qs)

\* the first missing position of a row, 0 when none is missing
FirstNa(qs) ==
  IF \E j \in 1..Len(qs) : IsNa(qs[j])
  THEN CHOOSE j \in 1..Len(qs) : IsNa(qs[j]) /\ \A k \in 1..(j - 1) : NotNa(qs[k])
  ELSE 0

fill_first_gap_only(frame) ==
  [i \in 1..Len(frame.rows) |->
     [j \in 1..NumQuestions |->
        IF j = FirstNa(frame.rows[i].q)
        THEN row_mean(frame.rows[i].q)
        ELSE frame.rows[i].q[j]]]

\* QuestionnaireAnalysis._fill_na_with_mean: grades_df.where(notnull, means_df)
fill_grades(frame) ==
  [i \in 1..Len(frame.rows) |->
     [j \in 1..NumQuestions |->
        IF NotNa(frame.rows[i].q[j])
        THEN frame.rows[i].q[j]
        ELSE row_mean(frame.rows[i].q)]]

\* updated_df = self.data.copy(); updated_df.loc[:, "q1":"q5"] = filled
WithGrades(frame, grades) ==
  [frame EXCEPT !.rows =
     [i \in 1..Len(frame.rows) |-> [frame.rows[i] EXCEPT !.q = grades[i]]]]

\* question_columns.mean(axis=1)
RowMeans(frame) == [i \in 1..Len(frame.rows) |-> row_mean(frame.rows[i].q)]

\* .astype("uint8") refuses a NaN: IntCastingNaNError
CastRaises(frame) == \E i \in 1..Len(frame.rows) : IsNa(RowMeans(frame)[i])

\* question_columns.isna().sum(axis=1) > maximal_nans_per_sub, one row
masked(qs, m) == NanCount(qs) > m

\* .astype("uint8").astype("UInt8") of one mean
score_of_mean(v) == ToUInt8(v)

\* the score column score_subjects writes, when the cast does not raise
ScoreColumn(frame, m) ==
  [i \in 1..Len(frame.rows) |->
     IF masked(frame.rows[i].q, m)
     THEN ScoreNA
     ELSE ScoreOf(score_of_mean(RowMeans(frame)[i]))]

\* dropna(subset=["age"]): the rows that stay
has_age(row) == NotNa(row.age)

over_or_at_threshold(age) == age.num >= AgeThreshold * age.den

\* lambda x: x > 40
over_threshold(age) == age.num > AgeThreshold * age.den

\* the rows groupby puts in a group; a missing key is in no group (dropna=True)
Bucketed(frame) ==
  {i \in 1..Len(frame.rows) :
     has_age(frame.rows[i]) /\ ~frame.rows[i].gender.isnull}

KeyOf(row) == <<row.gender, over_threshold(row.age)>>

Members(frame, key) ==
  {i \in Bucketed(frame) : KeyOf(frame.rows[i]) = key}

\* the values of one question over a set of rows, in row order
Column(frame, members, j) ==
  LET keep == SelectSeq([i \in 1..Len(frame.rows) |-> i], LAMBDA i : i \in members)
  IN  [k \in 1..Len(keep) |-> frame.rows[keep[k]].q[j]]

\* QuestionnaireAnalysis.correlate_gender_age: grouped.mean()
GroupMeans(frame) ==
  {[gender |-> key[1], over |-> key[2],
    means |-> [j \in 1..NumQuestions |->
                 NanMean(Column(frame, Members(frame, key), j))]] :
     key \in {KeyOf(frame.rows[i]) : i \in Bucketed(frame)}}


(***************************************************************************)
(* The inputs: the records of the file read_data loads (file) and the      *)
(* argument of a direct call of _validate_email (input).                   *)
(***************************************************************************)
Row(age, gender, email, q) ==
  [age |-> age, gender |-> gender, email |-> email, q |-> q]

Answers(t) == [j \in 1..NumQuestions |-> Num(t[j])]

BaseAnswers == Answers(<<2, 4, 6, 8, 5>>)

\* the base answers with every choice of missing positions
MaskedAnswers ==
  {[j \in 1..NumQuestions |-> IF j \in M THEN NaN ELSE BaseAnswers[j]] :
     M \in SUBSET (1..NumQuestions)}

ValidA == Str(<<97, At, 97, Dot, 97>>)

ValidB == Str(<<98, At, 97, Dot, 97>>)

EmailSample ==
  {None, FloatNaN, ValidA, ValidB, Str(<<>>), Str(<<97, Dot, 97>>),
   Str(<<97, At, Dot, 97>>), Str(<<233, At, 97, Dot, 97>>)}

Alphabet == {At, Dot, 97, 233}

AllEmails == {Str(s) : s \in SeqsUpTo(Alphabet, MaxEmailLen)} \cup {None, FloatNaN}

RowsEmail == {Row(Num(30), Gender("F"), e, BaseAnswers) : e \in EmailSample}

RowsAnswers ==
  {Row(Num(30), Gender("F"), ValidA, q) : q \in MaskedAnswers}
    \cup {Row(NaN, NoGender, None, q) :
            q \in {BaseAnswers, [BaseAnswers EXCEPT ![1] = NaN]}}

RowsScore == {Row(Num(30), Gender("F"), ValidA, q) : q \in MaskedAnswers}

AnswersSample ==
  {Answers(<<10, 4, 6, 8, 5>>), Answers(<<20, 4, 6, 8, 5>>),
   [Answers(<<0, 4, 6, 8, 5>>) EXCEPT ![1] = NaN, ![5] = NaN]}

RowsAgg ==
  {Row(a, g, ValidA, q) :
     a \in {NaN, Num(30), Num(AgeThreshold), Num(50)},
     g \in {NoGender, Gender("F"), Gender("M")},
     q \in AnswersSample}

RowsAll ==
  {Row(Num(30), Gender("F"), ValidA, BaseAnswers),
   Row(Num(50), Gender("M"), Str(<<97, Dot, 97>>),
       [BaseAnswers EXCEPT ![5] = NaN]),
   Row(NaN, Gender("F"), ValidB,
       [BaseAnswers EXCEPT ![3] = NaN, ![4] = NaN, ![5] = NaN]),
   Row(Num(AgeThreshold), NoGender, None, [j \in 1..NumQuestions |-> NaN]),
   Row(Num(50), Gender("F"), ValidA, Answers(<<100, 0, 1, 99, 3>>))}

Files(rowSet) == {FrameOf(rows) : rows \in SeqsUpTo(rowSet, MaxRows)}

(***************************************************************************)
(* The state after __init__: the file exists, self.data is an empty frame. *)
(***************************************************************************)
InitWith(fileSet, emailSet) ==
  /\ file \in fileSet
  /\ input \in emailSet
  /\ loaded = FALSE
  /\ data = EmptyFrame
  /\ ret = NoRet

(***************************************************************************)
(* The operations.  The analysis methods are called on a loaded object.    *)
(***************************************************************************)
\* QuestionnaireAnalysis.read_data
ReadData ==
  /\ ~loaded
  /\ loaded' = TRUE
  /\ data' = file
  /\ ret' = [NoRet EXCEPT !.op = "read_data"]
  /\ UNCHANGED <<file, input>>

\* a call of self._validate_email(input)
ValidateEmail ==
  /\ ret' = [NoRet EXCEPT !.op = "validate_email",
                          !.email = input,
                          !.raised = validate_email(input).raised,
                          !.value = validate_email(input).value]
  /\ UNCHANGED <<file, input, loaded, data>>

\* QuestionnaireAnalysis.remove_rows_without_mail
RemoveRowsWithoutMail ==
  /\ loaded
  /\ LET raised == FirstRaised(EmailChecks(data))
     IN  ret' = [NoRet EXCEPT !.op = "remove_rows_without_mail",
                              !.raised = raised,
                              !.frame = IF raised = "none"
                                        THEN ValidRows(data)
                                        ELSE EmptyFrame]
  /\ UNCHANGED <<file, input, loaded, data>>

\* a call of self._find_rows_with_nulls()
FindRowsWithNulls ==
  /\ loaded
  /\ ret' = [NoRet EXCEPT !.op = "find_rows_with_nulls",
                          !.indices = find_rows_with_nulls(data)]
  /\ UNCHANGED <<file, input, loaded, data>>

FillNaWithMeanInPlace ==
  /\ loaded
  /\ data' = WithGrades(data, fill_grades(data))
  /\ ret' = [NoRet EXCEPT !.op = "fill_na_with_mean",
                          !.frame = data',
                          !.indices = find_rows_with_nulls(data)]
  /\ UNCHANGED <<file, input, loaded>>

\* QuestionnaireAnalysis.fill_na_with_mean
FillNaWithMean ==
  /\ loaded
  /\ ret' = [NoRet EXCEPT !.op = "fill_na_with_mean",
                          !.frame = WithGrades(data, fill_grades(data)),
                          !.indices = find_rows_with_nulls(data)]
  /\ UNCHANGED <<file, input, loaded, data>>

\* QuestionnaireAnalysis.score_subjects(maximal_nans_per_sub)
ScoreSubjects ==
  \E m \in 0..MaxNans :
    /\ loaded
    /\ IF CastRaises(data)
       THEN /\ ret' = [NoRet EXCEPT !.op = "score_subjects",
                                    !.maxnans = m,
                                    !.raised = "IntCastingNaNError"]
            /\ UNCHANGED data
       ELSE /\ data' = [data EXCEPT !.hasScore = TRUE,
                                    !.score = ScoreColumn(data, m)]
            /\ ret' = [NoRet EXCEPT !.op = "score_subjects",
                                    !.maxnans = m,
                                    !.frame = data']
    /\ UNCHANGED <<file, input, loaded>>

\* QuestionnaireAnalysis.correlate_gender_age
CorrelateGenderAge ==
  /\ loaded
  /\ ret' = [NoRet EXCEPT !.op = "correlate_gender_age",
                          !.groups = GroupMeans(data)]
  /\ UNCHANGED <<file, input, loaded, data>>

(***************************************************************************)
(* Specifications.  Spec runs every operation over a small sample of       *)
(* files; the others run the operations of one stage over all the inputs   *)
(* of that stage.                                                          *)
(***************************************************************************)
Init == InitWith(Files(RowsAll), {None, ValidA})

Next ==
  \/ ReadData
  \/ ValidateEmail
  \/ RemoveRowsWithoutMail
  \/ FindRowsWithNulls
  \/ FillNaWithMean
  \/ ScoreSubjects
  \/ CorrelateGenderAge

Spec == Init /\ [][Next]_vars

InitValidate == InitWith({EmptyFrame}, AllEmails)

NextValidate == ValidateEmail

SpecValidate == InitValidate /\ [][NextValidate]_vars

InitEmail == InitWith(Files(RowsEmail), EmailSample)

NextEmail ==
  \/ ReadData
  \/ ValidateEmail
  \/ RemoveRowsWithoutMail

SpecEmail == InitEmail /\ [][NextEmail]_vars

InitAnswers == InitWith(Files(RowsAnswers), {None})

NextAnswers ==
  \/ ReadData
  \/ FindRowsWithNulls
  \/ FillNaWithMean

SpecAnswers == InitAnswers /\ [][NextAnswers]_vars

InitScore == InitWith(Files(RowsScore), {None})

NextScore ==
  \/ ReadData
  \/ ScoreSubjects

SpecScore == InitScore /\ [][NextScore]_vars

InitAgg == InitWith(Files(RowsAgg), {None})

NextAgg ==
  \/ ReadData
  \/ CorrelateGenderAge

SpecAgg == InitAgg /\ [][NextAgg]_vars


(***************************************************************************)
(* The claims.  Each is stated from the specification's words, with its    *)
(* own helpers, and checked against what the operations above return.      *)
(***************************************************************************)
\* the six conditions of a well-formed email string
SixConditions(s) ==
  /\ (\E i \in 1..Len(s) : s[i] = At) /\ (\E i \in 1..Len(s) : s[i] = Dot)
  /\ ~(s # <<>> /\ (Head(s) = At \/ s[Len(s)] = At))
  /\ ~(s # <<>> /\ (Head(s) = Dot \/ s[Len(s)] = Dot))
  /\ \A i \in 1..Len(s) : s[i] \in 0..127
  /\ Cardinality({i \in 1..Len(s) : s[i] = At}) = 1
  /\ ~\E i \in 1..(Len(s) - 1) : s[i] = At /\ s[i + 1] = Dot

\* an email cell that should pass: a string meeting the six conditions
WellFormed(cell) == cell.kind = "str" /\ SixConditions(cell.chars)

Ascending(s) == \A a, b \in 1..Len(s) : a < b => s[a] < s[b]

Range(s) == {s[i] : i \in 1..Len(s)}

MissingAnswers(row) == {j \in 1..NumQuestions : row.q[j].nan}

Answered(row) == (1..NumQuestions) \ MissingAnswers(row)

\* v is the mean of the values that are present in the set vals of cells
RECURSIVE NumSum(_)
NumSum(S) ==
  IF S = {} THEN 0
  ELSE LET x == CHOOSE x \in S : TRUE IN x[2].num + NumSum(S \ {x})

\* cells: a set of <<tag, integer cell>> pairs; v = (sum of present) / (count)
IsMeanOf(v, cells) ==
  LET present == {c \in cells : ~c[2].nan}
  IN  IF present = {}
      THEN v.nan
      ELSE ~v.nan /\ v.num * Cardinality(present) = NumSum(present) * v.den

RowCells(row) == {<<j, row.q[j]>> : j \in 1..NumQuestions}

\* the labels a null-row list must hold: ascending, exactly the rows with a
\* missing answer
IsNullRowList(indices, frame) ==
  /\ Ascending(indices)
  /\ \A i \in 1..Len(frame.rows) :
       (frame.index[i] \in Range(indices)) <=> (MissingAnswers(frame.rows[i]) # {})

\* C1: for every string s, _validate_email(s) returns True exactly when the
\* six conditions hold, returns False otherwise (the empty string included),
\* and never raises on a string.
C1_ValidateEmailIsSixConditions ==
  (ret.op = "validate_email" /\ ret.email.kind = "str") =>
    /\ ret.raised = "none"
    /\ ret.value <=> SixConditions(ret.email.chars)

C1_Witness ==
  /\ ret.op = "validate_email"
  /\ ret.email.kind = "str"
  /\ Len(ret.email.chars) = MaxEmailLen
  /\ ret.value

\* C2: a null or non-string email does not make validation raise:
\* _validate_email returns False for it, and remove_rows_without_mail
\* completes and removes the row.
C2_NullEmailIsInvalid ==
  /\ (ret.op = "validate_email" /\ ret.email.kind # "str") =>
       (ret.raised = "none" /\ ret.value = FALSE)
  /\ (ret.op = "remove_rows_without_mail"
        /\ \E i \in 1..Len(data.rows) : data.rows[i].email.kind # "str") =>
       /\ ret.raised = "none"
       /\ \A k \in 1..Len(ret.frame.rows) : ret.frame.rows[k].email.kind = "str"

\* C3: for every dataset remove_rows_without_mail returns exactly the rows
\* whose email is well formed, in their order, indexed 0..k-1; every email of
\* the result is valid and filtering the result again returns it unchanged.
C3_FilterKeepsExactlyValidRows ==
  ret.op = "remove_rows_without_mail" =>
    /\ ret.raised = "none"
    /\ ret.frame.rows = SelectSeq(data.rows, LAMBDA r : WellFormed(r.email))
    /\ ret.frame.index = [k \in 1..Len(ret.frame.rows) |-> k - 1]
    /\ \A k \in 1..Len(ret.frame.rows) : WellFormed(ret.frame.rows[k].email)
    /\ FirstRaised(EmailChecks(ret.frame)) = "none"
    /\ ValidRows(ret.frame) = ret.frame

\* C3 on the calls that return: the result is as C3 says.
C3_HoldsWhenFilterReturns ==
  (ret.op = "remove_rows_without_mail" /\ ret.raised = "none") =>
    /\ ret.frame.rows = SelectSeq(data.rows, LAMBDA r : WellFormed(r.email))
    /\ ret.frame.index = [k \in 1..Len(ret.frame.rows) |-> k - 1]
    /\ ValidRows(ret.frame) = ret.frame

\* C4: _find_rows_with_nulls returns the row indices ascending, without
\* duplicates, an index being in the result exactly when the row misses one
\* of q1..q5; a missing age, gender or email alone does not count.
C4_NullRowsAreExactlyMissingAnswers ==
  ret.op = "find_rows_with_nulls" => IsNullRowList(ret.indices, data)

C4_Witness ==
  /\ ret.op = "find_rows_with_nulls"
  /\ Len(data.rows) = MaxRows
  /\ Len(ret.indices) = 1
  /\ \E i \in 1..Len(data.rows) :
       /\ data.rows[i].age.nan
       /\ data.rows[i].gender.isnull
       /\ data.index[i] \notin Range(ret.indices)

\* C5: fill_na_with_mean returns (updated table, null rows): every missing
\* answer is replaced by the mean of the row's answered questions, every
\* answered value and every other column is unchanged, a row with no answer
\* keeps all five missing, and the list is that of _find_rows_with_nulls on
\* the data before imputation.
C5_FillReplacesMissingByRowMean ==
  ret.op = "fill_na_with_mean" =>
    /\ ret.raised = "none"
    /\ Len(ret.frame.rows) = Len(data.rows)
    /\ ret.frame.index = data.index
    /\ ret.frame.hasScore = data.hasScore
    /\ ret.frame.score = data.score
    /\ \A i \in 1..Len(data.rows) :
         LET old == data.rows[i]
             new == ret.frame.rows[i]
         IN  /\ new.age = old.age
             /\ new.gender = old.gender
             /\ new.email = old.email
             /\ \A j \in Answered(old) : new.q[j] = old.q[j]
             /\ \A j \in MissingAnswers(old) : IsMeanOf(new.q[j], RowCells(old))
             /\ (Answered(old) = {}) => \A j \in 1..NumQuestions : new.q[j].nan
    /\ IsNullRowList(ret.indices, data)

C5_Witness ==
  /\ ret.op = "fill_na_with_mean"
  /\ \E i \in 1..Len(data.rows) :
       /\ Cardinality(MissingAnswers(data.rows[i])) = 2
       /\ \A j \in 1..NumQuestions : ~ret.frame.rows[i].q[j].nan
       /\ \E j \in MissingAnswers(data.rows[i]) : ret.frame.rows[i].q[j].den > 1
  /\ \E i \in 1..Len(data.rows) : Answered(data.rows[i]) = {}

\* C6: imputation is idempotent: _fill_na_with_mean applied to the imputed
\* table gives the q1..q5 values the first application gave.
C6_FillIsIdempotent ==
  ret.op = "fill_na_with_mean" => fill_grades(ret.frame) = Grades(ret.frame)

C6_Witness ==
  /\ ret.op = "fill_na_with_mean"
  /\ \E i \in 1..Len(data.rows) :
       /\ Cardinality(MissingAnswers(data.rows[i])) >= 2
       /\ Answered(data.rows[i]) # {}
       /\ Grades(ret.frame)[i] # data.rows[i].q
  /\ \E i \in 1..Len(data.rows) : Answered(data.rows[i]) = {}

\* n is the floor of the mean of the row's answered questions
IsFloorOfMean(n, row) ==
  LET present == {c \in RowCells(row) : ~c[2].nan}
      k == Cardinality(present)
  IN  n * k <= NumSum(present) /\ NumSum(present) < (n + 1) * k

\* C7: after score_subjects(m), every row with at least one answered
\* question has the missing marker as its score exactly when more than m of
\* q1..q5 are missing, and otherwise the floor of the mean of its answered
\* questions.
C7_ScoreIsFloorOfMeanOrMasked ==
  ret.op = "score_subjects" =>
    \A i \in 1..Len(data.rows) :
      Answered(data.rows[i]) # {} =>
        /\ data.hasScore
        /\ data.score[i].na <=>
             (Cardinality(MissingAnswers(data.rows[i])) > ret.maxnans)
        /\ ~data.score[i].na => IsFloorOfMean(data.score[i].v, data.rows[i])

\* C7 on the calls that return: the scores are as C7 says.
C7_HoldsWhenScoreReturns ==
  (ret.op = "score_subjects" /\ ret.raised = "none") =>
    /\ data.hasScore
    /\ ret.frame = data
    /\ \A i \in 1..Len(data.rows) :
         /\ data.score[i].na <=>
              (Cardinality(MissingAnswers(data.rows[i])) > ret.maxnans)
         /\ ~data.score[i].na => IsFloorOfMean(data.score[i].v, data.rows[i])

\* C8: for a row whose q1..q5 are all missing, score_subjects completes and
\* the row's score is the missing marker, for every max_allowed_missing,
\* also when it is 5 or more.
C8_AllMissingRowScoresNA ==
  (ret.op = "score_subjects"
     /\ \E i \in 1..Len(data.rows) : Answered(data.rows[i]) = {}) =>
    /\ ret.raised = "none"
    /\ data.hasScore
    /\ \A i \in 1..Len(data.rows) :
         Answered(data.rows[i]) = {} => data.score[i].na

\* the rows of one (gender, age > 40) pair among the rows rowSet
PairRows(frame, rowSet, gender, over) ==
  {i \in rowSet :
     /\ frame.rows[i].gender = gender
     /\ (frame.rows[i].age.num > AgeThreshold * frame.rows[i].age.den) = over}

\* groups holds one row per pair occurring among rowSet, none for another
\* pair, each with the per-question means over the rows of its pair
IsGroupTable(groups, frame, rowSet) ==
  /\ \A i \in rowSet :
       \E g \in groups : i \in PairRows(frame, rowSet, g.gender, g.over)
  /\ \A g \in groups : PairRows(frame, rowSet, g.gender, g.over) # {}
  /\ \A g, h \in groups : (g.gender = h.gender /\ g.over = h.over) => g = h
  /\ \A g \in groups : \A j \in 1..NumQuestions :
       IsMeanOf(g.means[j],
                {<<i, frame.rows[i].q[j]>> :
                   i \in PairRows(frame, rowSet, g.gender, g.over)})

WithAge(frame) == {i \in 1..Len(frame.rows) : ~frame.rows[i].age.nan}

WithAgeAndGender(frame) ==
  {i \in WithAge(frame) : ~frame.rows[i].gender.isnull}

\* C9 as stated: correlate_gender_age returns one row per distinct
\* (gender, age > 40) pair occurring among the rows with non-missing age,
\* none for a pair that does not occur, each with the per-question means of
\* its bucket; rows with missing age are in no bucket, age 40 is not over 40.
C9_OneGroupPerPairWithAge ==
  ret.op = "correlate_gender_age" =>
    IsGroupTable(ret.groups, data, WithAge(data))

\* C9 amended: the pairs are those occurring among the rows with non-missing
\* age and non-missing gender; a row with a missing gender is in no bucket.
C9_OneGroupPerPairWithAgeAndGender ==
  ret.op = "correlate_gender_age" =>
    IsGroupTable(ret.groups, data, WithAgeAndGender(data))

C9_Witness ==
  /\ ret.op = "correlate_gender_age"
  /\ Len(data.rows) = MaxRows
  /\ \E i \in 1..Len(data.rows) :
       /\ data.rows[i].age = Num(AgeThreshold)
       /\ \E g \in ret.groups : g.gender = data.rows[i].gender /\ ~g.over
  /\ \E i \in 1..Len(data.rows) :
       data.rows[i].age.nan \/ data.rows[i].gender.isnull
  /\ Cardinality(ret.groups) = 1

\* C10: on a loaded object only score_subjects changes self.data, and it
\* changes only the score column; so the scores a call writes are those of
\* the loaded file, whatever was called before it.
C10_OnlyScoreColumnChanges ==
  [][loaded =>
       /\ data'.rows = data.rows
       /\ data'.index = data.index
       /\ ret'.op # "score_subjects" => data' = data
       /\ (ret'.op = "score_subjects" /\ ret'.raised = "none") =>
            data'.score = ScoreColumn(file, ret'.maxnans)]_vars

C10_Witness ==
  /\ ret.op = "fill_na_with_mean"
  /\ data.hasScore
  /\ \E i \in 1..Len(data.rows) : data.score[i].na
  /\ Grades(ret.frame) # Grades(data)
  /\ data.rows = file.rows


====
